---------------------------- MODULE Spec2Model ----------------------------
(***************************************************************************)
(* goffkv-zk: the flat, versioned key-value client of src/zk.go on top of  *)
(* a ZooKeeper tree.                                                       *)
(*                                                                         *)
(* One client (the caller) runs the operations of zkClient one round trip  *)
(* at a time; the other clients of the same ZooKeeper ensemble are the     *)
(* Other* actions, each one atomic ZooKeeper request.  The tree is the     *)
(* only shared state.                                                      *)
(*                                                                         *)
(* Keys and paths are sequences of segments: "/app/x/y" is                 *)
(* <<"app","x","y">>.  goffkv.Version is a uint64, written here as four    *)
(* 16-bit limbs <<l3,l2,l1,l0>> (most significant first), so that the      *)
(* conversions to ZooKeeper's int32 node version keep their width.         *)
(***************************************************************************)
EXTENDS Integers, Sequences, FiniteSets, TLC

VARIABLES
    tree,      \* ZooKeeper: path -> node
    pc,        \* the caller's position inside its current call
    op,        \* the current call and its arguments
    ops,       \* the batch being built (Erase, Commit)
    stack,     \* makeEraseQuery's recursion: frames still open
    bnd,       \* Commit: boundaries
    rks,       \* Commit: result kinds
    opi,       \* Commit: number of txn.Ops already expanded
    ret,       \* what the call returned
    applied,   \* history: requests of the current call that changed the tree
    lastRet,   \* history: key -> version returned by the last applied write
    others,    \* number of requests the other clients have made
    ncalls     \* number of calls the caller has started

vars == <<tree, pc, op, ops, stack, bnd, rks, opi, ret, applied, lastRet,
          others, ncalls>>

-----------------------------------------------------------------------------
(* Bounds of the model. *)

\* Highest native node version the model lets a node reach.
MaxNative == 2
\* Requests the other clients may make during a run.
MaxOthers == 2
\* Calls the caller may make one after the other during a run.
MaxCalls == 3

-----------------------------------------------------------------------------
(* uint64 and int32 *)

Base == 2^16
Half == 2^15

U64Zero == <<0, 0, 0, 0>>

\* uint64(n) of a non-negative int32 n
U64(n) == <<0, 0, n \div Base, n % Base>>

\* v + 1 on 64 bits
U64Inc(v) ==
    IF v[4] < Base - 1 THEN <<v[1], v[2], v[3], v[4] + 1>>
    ELSE IF v[3] < Base - 1 THEN <<v[1], v[2], v[3] + 1, 0>>
    ELSE IF v[2] < Base - 1 THEN <<v[1], v[2] + 1, 0, 0>>
    ELSE IF v[1] < Base - 1 THEN <<v[1] + 1, 0, 0, 0>>
    ELSE U64Zero

\* v - 1 on 64 bits
U64Dec(v) ==
    IF v[4] > 0 THEN <<v[1], v[2], v[3], v[4] - 1>>
    ELSE IF v[3] > 0 THEN <<v[1], v[2], v[3] - 1, Base - 1>>
    ELSE IF v[2] > 0 THEN <<v[1], v[2] - 1, Base - 1, Base - 1>>
    ELSE IF v[1] > 0 THEN <<v[1] - 1, Base - 1, Base - 1, Base - 1>>
    ELSE <<Base - 1, Base - 1, Base - 1, Base - 1>>

\* int32(v): the low 32 bits of v, read as a signed number
Int32(v) ==
    IF v[3] >= Half THEN (v[3] - Base) * Base + v[4]
    ELSE v[3] * Base + v[4]

MinInt32 == (0 - Half) * Base
MaxInt32 == (Half - 1) * Base + (Base - 1)

\* x - 1 on int32
Int32Dec(x) == IF x = MinInt32 THEN MaxInt32 ELSE x - 1

\* uint64(1) << 62
Sentinel == <<2^14, 0, 0, 0>>

-----------------------------------------------------------------------------
(* The ZooKeeper tree *)

\* The namespace root given to New, already disassembled.
prefixSegments == <<"app">>

\* The keys of the model: x, x/y, x/y/z and x/u.
Keys == { <<"x">>, <<"x", "y">>, <<"x", "y", "z">>, <<"x", "u">> }

Names == {"x", "y", "z", "u"}

Values == {"v1", "v2"}

\* What the other clients write.
OtherValue == "o"

Paths == {prefixSegments} \cup { prefixSegments \o k : k \in Keys }

NoNode == [ex |-> FALSE, data |-> "", ver |-> 0, eph |-> FALSE]

Node(d, v, e) == [ex |-> TRUE, data |-> d, ver |-> v, eph |-> e]

Parent(p) == SubSeq(p, 1, Len(p) - 1)

IsPrefix(p, q) == Len(p) <= Len(q) /\ SubSeq(q, 1, Len(p)) = p

Has(t, p) == p = <<>> \/ (p \in Paths /\ t[p].ex)

ChildNames(t, p) ==
    { n \in Names : (p \o <<n>>) \in Paths /\ t[p \o <<n>>].ex }

\* ZooKeeper errors, by the names go-zookeeper gives them.
ErrNodeExists == "ErrNodeExists"
ErrNoNode == "ErrNoNode"
ErrNoChildrenForEphemerals == "ErrNoChildrenForEphemerals"
ErrBadVersion == "ErrBadVersion"
ErrNotEmpty == "ErrNotEmpty"
ErrRuntimeInconsistency == "ErrRuntimeInconsistency"
Nil == "nil"

\* goffkv errors
OpErrEntryExists == "OpErrEntryExists"
OpErrNoEntry == "OpErrNoEntry"
OpErrEphem == "OpErrEphem"

\* One ZooKeeper reply: the error, the tree after the request, the node's
\* version after it (Stat.Version; -1 where the reply carries no Stat).
Reply(e, t, v) == [err |-> e, tree |-> t, ver |-> v]

ZkCreate(t, p, d, e) ==
    IF ~Has(t, Parent(p)) \/ p \notin Paths THEN Reply(ErrNoNode, t, -1)
    ELSE IF t[p].ex THEN Reply(ErrNodeExists, t, -1)
    ELSE IF Parent(p) # <<>> /\ t[Parent(p)].eph
         THEN Reply(ErrNoChildrenForEphemerals, t, -1)
    ELSE Reply(Nil, [t EXCEPT ![p] = Node(d, 0, e)], 0)

VersionOk(t, p, v) == v = -1 \/ v = t[p].ver

ZkSet(t, p, d, v) ==
    IF ~Has(t, p) THEN Reply(ErrNoNode, t, -1)
    ELSE IF ~VersionOk(t, p, v) THEN Reply(ErrBadVersion, t, -1)
    ELSE Reply(Nil, [t EXCEPT ![p].data = d, ![p].ver = @ + 1], t[p].ver + 1)

ZkDelete(t, p, v) ==
    IF ~Has(t, p) THEN Reply(ErrNoNode, t, -1)
    ELSE IF ~VersionOk(t, p, v) THEN Reply(ErrBadVersion, t, -1)
    ELSE IF ChildNames(t, p) # {} THEN Reply(ErrNotEmpty, t, -1)
    ELSE Reply(Nil, [t EXCEPT ![p] = NoNode], -1)

ZkCheck(t, p, v) ==
    IF ~Has(t, p) THEN Reply(ErrNoNode, t, -1)
    ELSE IF ~VersionOk(t, p, v) THEN Reply(ErrBadVersion, t, -1)
    ELSE Reply(Nil, t, -1)

\* The requests of a batch.
CheckVersionRequest(p, v) == [type |-> "check", path |-> p, data |-> "", ver |-> v, eph |-> FALSE]
CreateRequest(p, d, e) == [type |-> "create", path |-> p, data |-> d, ver |-> 0, eph |-> e]
SetDataRequest(p, d, v) == [type |-> "set", path |-> p, data |-> d, ver |-> v, eph |-> FALSE]
DeleteRequest(p, v) == [type |-> "delete", path |-> p, data |-> "", ver |-> v, eph |-> FALSE]

ZkApply(t, r) ==
    CASE r.type = "check" -> ZkCheck(t, r.path, r.ver)
      [] r.type = "create" -> ZkCreate(t, r.path, r.data, r.eph)
      [] r.type = "set" -> ZkSet(t, r.path, r.data, r.ver)
      [] OTHER -> ZkDelete(t, r.path, r.ver)

\* The trees after each request of the batch in turn, from t: Run[i] is the
\* reply of request i on the tree its predecessors left.  Each reply is
\* drawn from a singleton, so it is worked out once.
RECURSIVE ZkRun(_, _)
ZkRunAfter(r, rs) ==
    IF r.err # Nil THEN <<r>> ELSE <<r>> \o ZkRun(r.tree, rs)
ZkRun(t, rs) ==
    IF rs = <<>> THEN <<>>
    ELSE CHOOSE run \in { ZkRunAfter(r, Tail(rs)) : r \in {ZkApply(t, Head(rs))} } : TRUE

\* conn.Multi: all or nothing.  data[i] is the reply of request i.  When a
\* request fails the server answers every request with an error result and
\* no Stat: code 0 (nil) for those before the failing one, the failure for
\* it, RuntimeInconsistency for those after it.  err is the first error.
\* run is the replies of the requests taken in turn (ZkRun).
ZkMultiReply(t, rs, run) ==
    LET n == Len(run)
        failed == n > 0 /\ run[n].err # Nil
    IN  IF ~failed
        THEN [err |-> Nil,
              tree |-> IF n = 0 THEN t ELSE run[n].tree,
              data |-> [i \in 1..n |->
                          [err |-> Nil,
                           ver |-> IF rs[i].type = "set" THEN run[i].ver
                                   ELSE -1]]]
        ELSE [err |-> run[n].err,
              tree |-> t,
              data |-> [i \in 1..Len(rs) |->
                          [err |-> IF i < n THEN Nil
                                   ELSE IF i = n THEN run[n].err
                                   ELSE ErrRuntimeInconsistency,
                           ver |-> -1]]]

\* conn.Multi on the tree t.
ZkMulti(t, rs) ==
    CHOOSE m \in { ZkMultiReply(t, rs, run) : run \in {ZkRun(t, rs)} } : TRUE

ZkChildren(t, p) ==
    IF ~Has(t, p) THEN [err |-> ErrNoNode, children |-> {}]
    ELSE [err |-> Nil, children |-> ChildNames(t, p)]

\* conn.Exists: (exists, stat.Version)
ZkExists(t, p) ==
    IF ~Has(t, p) THEN [ex |-> FALSE, ver |-> 0]
    ELSE [ex |-> TRUE, ver |-> t[p].ver]

ZkGet(t, p) ==
    IF ~Has(t, p) THEN [err |-> ErrNoNode, data |-> "", ver |-> -1]
    ELSE [err |-> Nil, data |-> t[p].data, ver |-> t[p].ver]

\* No node of the tree is beyond the version the model follows.
Bounded(t) == \A p \in Paths : t[p].ver <= MaxNative

-----------------------------------------------------------------------------
(* zkClient *)

assemblePath(segments) == prefixSegments \o segments

convertError(err) ==
    CASE err = ErrNodeExists -> OpErrEntryExists
      [] err = ErrNoNode -> OpErrNoEntry
      [] err = ErrNoChildrenForEphemerals -> OpErrEphem
      [] OTHER -> err

TxnError == "TxnError"

\* What a call returns: the version, the error, TxnError's index, Commit's
\* results, Children's keys, Get's value.
Ret(v, e) == [ver |-> v, err |-> e, idx |-> -1, res |-> <<>>, kids |-> {}, data |-> ""]

NoRet == Ret(U64Zero, Nil)

NoTxn == [checks |-> <<>>, ops |-> <<>>]

Call(name, key, value, ver, lease, txn) ==
    [name |-> name, key |-> key, value |-> value, ver |-> ver,
     lease |-> lease, txn |-> txn]

NoCall == Call("none", <<>>, "", U64Zero, FALSE, NoTxn)

\* The version Create reports for the node it made.
CreatedVersionZero == U64Zero
CreatedVersion == U64(1)

\* uint64(stat.Version) + 1
UserVersionRaw(native) == U64(native)
UserVersion(native) == U64Inc(U64(native))

\* Create: the tree after it and what it returns.
Create(t, key, value, lease) ==
    LET r == ZkCreate(t, assemblePath(key), value, lease)
    IN  IF r.err # Nil
        THEN [tree |-> t, ret |-> Ret(U64Zero, convertError(r.err))]
        ELSE [tree |-> r.tree, ret |-> Ret(CreatedVersion, Nil)]

\* The native version Cas asks conn.Set for.
CasVersionLate(ver) == Int32Dec(Int32(U64Inc(ver)))
CasVersion(ver) == Int32(U64Dec(ver))

Cas(t, key, value, ver) ==
    IF ver = U64Zero
    THEN LET c == Create(t, key, value, FALSE)
         IN  IF c.ret.err = Nil THEN c
             ELSE IF c.ret.err = OpErrEntryExists
                  THEN [tree |-> t, ret |-> Ret(U64Zero, Nil)]
             ELSE [tree |-> t, ret |-> Ret(U64Zero, c.ret.err)]
    ELSE LET r == ZkSet(t, assemblePath(key), value, CasVersion(ver))
         IN  CASE r.err = Nil -> [tree |-> r.tree, ret |-> Ret(UserVersion(r.ver), Nil)]
               [] r.err = ErrBadVersion -> [tree |-> t, ret |-> Ret(U64Zero, Nil)]
               [] OTHER -> [tree |-> t, ret |-> Ret(U64Zero, convertError(r.err))]

Exists(t, key) ==
    LET r == ZkExists(t, assemblePath(key))
    IN  Ret(IF r.ex THEN UserVersion(r.ver) ELSE U64Zero, Nil)

Get(t, key) ==
    LET r == ZkGet(t, assemblePath(key))
    IN  IF r.err # Nil THEN Ret(U64Zero, convertError(r.err))
        ELSE [Ret(UserVersion(r.ver), Nil) EXCEPT !.data = r.data]

Children(t, key) ==
    LET r == ZkChildren(t, assemblePath(key))
    IN  IF r.err # Nil THEN Ret(U64Zero, convertError(r.err))
        ELSE [Ret(U64Zero, Nil) EXCEPT !.kids = { key \o <<c>> : c \in r.children }]

\* Set's first round trip, conn.Create: "again" when the node exists and
\* the overwrite is still to come.
SetCreate(t, key, value) ==
    LET r == ZkCreate(t, assemblePath(key), value, FALSE)
    IN  IF r.err = Nil
        THEN [tree |-> r.tree, ret |-> Ret(CreatedVersion, Nil), again |-> FALSE]
        ELSE IF r.err # ErrNodeExists
        THEN [tree |-> t, ret |-> Ret(U64Zero, convertError(r.err)), again |-> FALSE]
        ELSE [tree |-> t, ret |-> NoRet, again |-> TRUE]

\* Set's second round trip, conn.Set with version -1.
SetOverwrite(t, key, value) ==
    LET r == ZkSet(t, assemblePath(key), value, -1)
    IN  IF r.err = Nil
        THEN [tree |-> r.tree, ret |-> Ret(UserVersion(r.ver), Nil)]
        ELSE IF r.err = ErrNoNode
        THEN [tree |-> t, ret |-> Ret(Sentinel, Nil)]
        ELSE [tree |-> t, ret |-> Ret(U64Zero, convertError(r.err))]

-----------------------------------------------------------------------------
(* makeEraseQuery, one round trip at a time.  A frame is one invocation    *)
(* that is still open: its segments, whether conn.Children has answered,   *)
(* and the children its loop has not reached yet.  The last frame of the   *)
(* stack is the innermost invocation.                                      *)

Frame(segments) == [segs |-> segments, listed |-> FALSE, kids |-> <<>>]

\* The orders in which conn.Children may list a set of names.
Orders(S) ==
    { s \in [1..Cardinality(S) -> S] : \A i, j \in 1..Cardinality(S) : s[i] = s[j] => i = j }

\* What makeEraseQuery does between two round trips: an invocation whose
\* loop is over appends its DeleteRequest and returns; one with a child left
\* calls itself on that child.
RECURSIVE makeEraseQueryLocal(_, _)
makeEraseQueryLocalParentFirst(st, os) ==
    IF st = <<>> THEN [stack |-> st, ops |-> os]
    ELSE LET n == Len(st)
             f == st[n]
         IN  IF ~f.listed THEN [stack |-> st, ops |-> os]
             ELSE IF f.kids = <<>>
             THEN makeEraseQueryLocal(SubSeq(st, 1, n - 1),
                      << Head(os), DeleteRequest(assemblePath(f.segs), -1) >> \o Tail(os))
             ELSE makeEraseQueryLocal(
                      Append([st EXCEPT ![n].kids = Tail(f.kids)],
                             Frame(f.segs \o <<Head(f.kids)>>)),
                      os)
makeEraseQueryLocal(st, os) ==
    IF st = <<>> THEN [stack |-> st, ops |-> os]
    ELSE LET n == Len(st)
             f == st[n]
         IN  IF ~f.listed THEN [stack |-> st, ops |-> os]
             ELSE IF f.kids = <<>>
             THEN makeEraseQueryLocal(SubSeq(st, 1, n - 1),
                      Append(os, DeleteRequest(assemblePath(f.segs), -1)))
             ELSE makeEraseQueryLocal(
                      Append([st EXCEPT ![n].kids = Tail(f.kids)],
                             Frame(f.segs \o <<Head(f.kids)>>)),
                      os)

\* The same with the recursion left out: only the node itself is deleted.
makeEraseQueryFlat(t, st, os, order) ==
    LET n == Len(st)
        f == st[n]
        r == ZkChildren(t, assemblePath(f.segs))
    IN  IF r.err # Nil
        THEN [err |-> r.err, stack |-> <<>>, ops |-> os]
        ELSE [err |-> Nil, stack |-> <<>>,
              ops |-> Append(os, DeleteRequest(assemblePath(f.segs), -1))]

\* One conn.Children of makeEraseQuery, for the innermost invocation, and
\* what follows it up to the next one.  err is the error the outermost
\* invocation returns (a child that is gone is skipped by its parent's loop).
makeEraseQuery(t, st, os, order) ==
    LET n == Len(st)
        f == st[n]
        r == ZkChildren(t, assemblePath(f.segs))
    IN  IF r.err # Nil
        THEN IF n = 1
             THEN [err |-> r.err, stack |-> <<>>, ops |-> os]
             ELSE [err |-> Nil] @@ makeEraseQueryLocal(SubSeq(st, 1, n - 1), os)
        ELSE [err |-> Nil] @@
             makeEraseQueryLocal([st EXCEPT ![n].listed = TRUE, ![n].kids = order], os)

\* The orders conn.Children may answer in for the innermost invocation.
ListOrders(t, st) == Orders(ChildNames(t, assemblePath(st[Len(st)].segs)))

-----------------------------------------------------------------------------
(* Erase *)

\* The native version Erase's CheckVersionRequest asks for.
EraseVersionAny(ver) == -1
EraseVersion(ver) == Int32Dec(Int32(ver))

\* The batch at the top of Erase's loop, before makeEraseQuery.
EraseOps(key, ver) == << CheckVersionRequest(assemblePath(key), EraseVersion(ver)) >>

\* The batches Erase submits for the requests it built: one conn.Multi.
EraseBatchesEach(os) == [i \in 1..Len(os) |-> <<os[i]>>]
EraseBatches(os) == << os >>

\* conn.Multi on each batch in turn, up to the first that fails: the
\* replies in a row, the first error, the tree the batches left.
RECURSIVE Submit(_, _)
SubmitJoin(m, rest) ==
    [err |-> rest.err, tree |-> rest.tree, data |-> m.data \o rest.data]
SubmitRest(m, batches) ==
    IF m.err # Nil THEN m ELSE SubmitJoin(m, Submit(m.tree, batches))
Submit(t, batches) ==
    IF batches = <<>> THEN [err |-> Nil, tree |-> t, data |-> <<>>]
    ELSE SubmitRest(ZkMulti(t, Head(batches)), Tail(batches))

\* What Erase does with conn.Multi's answer: "return" with an error or
\* nil, or "continue" (continue outermost).
EraseOutcomeStrict(m) ==
    CASE m.err = Nil -> [do |-> "return", err |-> Nil]
      [] OTHER -> [do |-> "return", err |-> convertError(m.err)]
EraseOutcomeEager(m) ==
    CASE m.err = Nil -> [do |-> "return", err |-> Nil]
      [] m.err = ErrNoNode /\ m.data[1].err # Nil -> [do |-> "return", err |-> OpErrNoEntry]
      [] OTHER -> [do |-> "continue", err |-> Nil]
EraseOutcome(m) ==
    CASE m.err = Nil -> [do |-> "return", err |-> Nil]
      [] m.err = ErrBadVersion -> [do |-> "return", err |-> Nil]
      [] m.err = ErrNotEmpty -> [do |-> "continue", err |-> Nil]
      [] m.err = ErrNoNode ->
            IF m.data[1].err # Nil THEN [do |-> "return", err |-> OpErrNoEntry]
            ELSE [do |-> "continue", err |-> Nil]
      [] OTHER -> [do |-> "return", err |-> convertError(m.err)]

-----------------------------------------------------------------------------
(* Commit *)

rkCreate == "rkCreate"
rkSet == "rkSet"
rkAux == "rkAux"

\* goffkv's transaction: Checks and Ops.
Check(key, ver) == [key |-> key, ver |-> ver]
TxnOp(what, key, value, lease) == [what |-> what, key |-> key, value |-> value, lease |-> lease]

\* The index of the first boundary that is >= o, or -1.  Indexes count
\* from 0, as in the code; boundaries[i] is bs[i + 1].
toUserOpIndexExact(bs, o) ==
    LET hits == { i \in 1..Len(bs) : bs[i] = o }
    IN  IF hits = {} THEN -1
        ELSE (CHOOSE i \in hits : \A j \in hits : i <= j) - 1
toUserOpIndex(bs, o) ==
    LET hits == { i \in 1..Len(bs) : bs[i] >= o }
    IN  IF hits = {} THEN -1
        ELSE (CHOOSE i \in hits : \A j \in hits : i <= j) - 1

\* The native version a Check's CheckVersionRequest asks for.
CheckVersionStrict(ver) == Int32(ver)
CheckVersion(ver) == Int32Dec(Int32(ver))

\* What is built so far.
Built(os, bs, ks, i, st) == [ops |-> os, bnd |-> bs, rks |-> ks, opi |-> i, stack |-> st]

\* The loop over txn.Checks.
CommitChecks(txn) ==
    Built([i \in 1..Len(txn.checks) |->
              CheckVersionRequest(assemblePath(txn.checks[i].key),
                                  CheckVersion(txn.checks[i].ver))],
          [i \in 1..Len(txn.checks) |-> i - 1],
          [i \in 1..Len(txn.checks) |-> rkAux],
          0, <<>>)

\* The loop over txn.Ops from where it stands, up to the next conn.Children
\* (an Erase, whose makeEraseQuery is then open on the stack) or to its end.
RECURSIVE CommitOps(_, _)
CommitOps(txn, b) ==
    IF b.opi = Len(txn.ops) THEN b
    ELSE LET o == txn.ops[b.opi + 1]
         IN  CASE o.what = "Create" ->
                    CommitOps(txn,
                        Built(Append(b.ops, CreateRequest(assemblePath(o.key), o.value, o.lease)),
                              Append(b.bnd, Len(b.ops)),
                              Append(b.rks, rkCreate), b.opi + 1, <<>>))
               [] o.what = "Set" ->
                    CommitOps(txn,
                        Built(Append(b.ops, SetDataRequest(assemblePath(o.key), o.value, -1)),
                              Append(b.bnd, Len(b.ops)),
                              Append(b.rks, rkSet), b.opi + 1, <<>>))
               [] OTHER -> [b EXCEPT !.stack = << Frame(o.key) >>]

\* The end of the Erase case, once makeEraseQuery has returned err with
\* the requests os, and the rest of the loop.
CommitErased(txn, b, os, err) ==
    LET o == txn.ops[b.opi + 1]
        os2 == IF err # Nil THEN Append(os, DeleteRequest(assemblePath(o.key), -1)) ELSE os
    IN  CommitOps(txn,
            Built(os2,
                  Append(b.bnd, Len(os2) - 1),
                  b.rks \o [i \in 1..(Len(os2) - Len(b.rks)) |-> rkAux],
                  b.opi + 1, <<>>))

\* The batches Commit submits for the requests it built: one conn.Multi.
CommitBatchesEach(os) == [i \in 1..Len(os) |-> <<os[i]>>]
CommitBatches(os) == << os >>

Result(do, err, idx, res) == [do |-> do, err |-> err, idx |-> idx, res |-> res]

\* The result a successful SetDataRequest contributes.
SetResultRaw(datum) == <<"Set", U64(datum.ver)>>
SetResult(datum) == <<"Set", UserVersion(datum.ver)>>

\* The loop over data from item i (counted from 1) with the results so far,
\* and what follows it: "return", "continue" (continue outermost) or "panic"
\* (no owner, or datum.Stat is nil where a Set's result is read).
RECURSIVE Reconcile(_, _, _, _, _, _)
Reconcile(bs, ks, data, err, i, res) ==
    IF i > Len(data)
    THEN IF err # Nil THEN Result("return", convertError(err), -1, <<>>)
         ELSE Result("return", Nil, -1, res)
    ELSE IF data[i].err # Nil
    THEN LET userIndex == toUserOpIndex(bs, i - 1)
         IN  IF userIndex < 0 THEN Result("panic", Nil, -1, <<>>)
             ELSE IF bs[userIndex + 1] # i - 1 THEN Result("continue", Nil, -1, <<>>)
             ELSE Result("return", TxnError, userIndex, <<>>)
    ELSE CASE ks[i] = rkCreate ->
                Reconcile(bs, ks, data, err, i + 1, Append(res, <<"Create", CreatedVersion>>))
           [] ks[i] = rkSet ->
                IF data[i].ver = -1 THEN Result("panic", Nil, -1, <<>>)
                ELSE Reconcile(bs, ks, data, err, i + 1, Append(res, SetResult(data[i])))
           [] OTHER -> Reconcile(bs, ks, data, err, i + 1, res)

-----------------------------------------------------------------------------
(* The inputs of the model *)

\* 2^32 + n: a version whose low 32 bits are n.
Wrapped(n) == <<0, 1, n \div Base, n % Base>>

\* The versions the caller passes: every version a node of the model can
\* have and one more, the same plus 2^32 for version 1, and the sentinel.
Versions == { U64(n) : n \in 0..(MaxNative + 2) } \cup { Wrapped(1), Sentinel }

\* The trees a run starts from: x (version 1 or 2) with any of its
\* descendants, or nothing but the namespace root.
Shapes ==
    { S \in SUBSET Keys : \A k \in S : Len(k) > 1 => SubSeq(k, 1, Len(k) - 1) \in S }

TreeOf(S, xver) ==
    [p \in Paths |->
        IF p = prefixSegments THEN Node("", 0, FALSE)
        ELSE IF SubSeq(p, 2, Len(p)) \in S
             THEN Node(OtherValue, IF Len(p) = 2 THEN xver ELSE 0, FALSE)
             ELSE NoNode]

EmptyTree == TreeOf({}, 0)

InitTrees == { TreeOf(S, v) : S \in Shapes, v \in 0..1 }

X == <<"x">>
XY == <<"x", "y">>
XYZ == <<"x", "y", "z">>
XU == <<"x", "u">>

\* The transactions the caller commits.
TxnChecks ==
    { <<>>, << Check(X, U64(0)) >>, << Check(X, U64(1)) >>, << Check(XU, U64(0)) >>,
      << Check(X, U64(1)), Check(XU, U64(0)) >>, << Check(X, Sentinel) >> }

TxnOps ==
    { << TxnOp("Set", X, "v1", FALSE), TxnOp("Create", XU, "v2", FALSE) >>,
      << TxnOp("Set", X, "v1", FALSE), TxnOp("Erase", X, "", FALSE) >>,
      << TxnOp("Set", X, "v1", FALSE), TxnOp("Set", X, "v2", FALSE) >>,
      << TxnOp("Set", X, "v1", FALSE), TxnOp("Set", XU, "v2", FALSE) >>,
      << TxnOp("Set", X, "v1", FALSE), TxnOp("Erase", XU, "", FALSE) >>,
      << TxnOp("Create", XU, "v1", TRUE) >>,
      << TxnOp("Set", XU, "v1", FALSE) >>,
      << TxnOp("Erase", X, "", FALSE) >>,
      << TxnOp("Erase", XU, "", FALSE) >>,
      << TxnOp("Erase", XY, "", FALSE), TxnOp("Erase", X, "", FALSE) >>,
      << TxnOp("Set", XY, "v1", FALSE), TxnOp("Erase", XY, "", FALSE),
         TxnOp("Create", XY, "v2", FALSE) >> }

Txns == { [checks |-> c, ops |-> o] : c \in TxnChecks, o \in TxnOps }

-----------------------------------------------------------------------------
(* The state machine *)

InitWith(t) ==
    /\ tree = t
    /\ pc = "idle"
    /\ op = NoCall
    /\ ops = <<>>
    /\ stack = <<>>
    /\ bnd = <<>>
    /\ rks = <<>>
    /\ opi = 0
    /\ ret = NoRet
    /\ applied = 0
    /\ lastRet = [k \in Keys |->
                    IF t[assemblePath(k)].ex THEN U64(t[assemblePath(k)].ver + 1)
                    ELSE U64Zero]
    /\ others = 0
    /\ ncalls = 0

\* After New: some tree under the namespace root, no call yet.
Init == \E t \in InitTrees : InitWith(t)

\* After New on an empty namespace.
InitEmpty == InitWith(EmptyTree)

\* lastRet once the write of key k has returned version v.
Wrote(k, v) == [lastRet EXCEPT ![k] = v]

\* lastRet once the keys that are gone from t are forgotten.
Forget(lr, t) == [k \in Keys |-> IF t[assemblePath(k)].ex THEN lr[k] ELSE U64Zero]

\* A call of one round trip: name(key, ...) answers r = [tree, ret].
OneTrip(c, r, writes) ==
    /\ pc = "idle"
    /\ Bounded(r.tree)
    /\ tree' = r.tree
    /\ pc' = "done"
    /\ op' = c
    /\ ret' = r.ret
    /\ applied' = IF r.tree # tree THEN 1 ELSE 0
    /\ lastRet' = IF writes /\ r.tree # tree THEN Wrote(c.key, r.ret.ver) ELSE lastRet
    /\ ncalls' = ncalls + 1
    /\ UNCHANGED <<ops, stack, bnd, rks, opi, others>>

CallCreate(k, v, l) ==
    OneTrip(Call("Create", k, v, U64Zero, l, NoTxn), Create(tree, k, v, l), TRUE)

CallCas(k, v, ver) ==
    OneTrip(Call("Cas", k, v, ver, FALSE, NoTxn), Cas(tree, k, v, ver), TRUE)

CallExists(k) ==
    OneTrip(Call("Exists", k, "", U64Zero, FALSE, NoTxn),
            [tree |-> tree, ret |-> Exists(tree, k)], FALSE)

CallGet(k) ==
    OneTrip(Call("Get", k, "", U64Zero, FALSE, NoTxn),
            [tree |-> tree, ret |-> Get(tree, k)], FALSE)

CallChildren(k) ==
    OneTrip(Call("Children", k, "", U64Zero, FALSE, NoTxn),
            [tree |-> tree, ret |-> Children(tree, k)], FALSE)

\* Set, up to the answer of conn.Create.
CallSet(k, v) ==
    LET r == SetCreate(tree, k, v)
    IN  /\ pc = "idle"
        /\ Bounded(r.tree)
        /\ tree' = r.tree
        /\ pc' = IF r.again THEN "set_overwrite" ELSE "done"
        /\ op' = Call("Set", k, v, U64Zero, FALSE, NoTxn)
        /\ ret' = r.ret
        /\ applied' = IF r.tree # tree THEN 1 ELSE 0
        /\ lastRet' = IF r.tree # tree THEN Wrote(k, r.ret.ver) ELSE lastRet
        /\ ncalls' = ncalls + 1
        /\ UNCHANGED <<ops, stack, bnd, rks, opi, others>>

\* Set, the answer of conn.Set.
SetOverwriteStep ==
    LET r == SetOverwrite(tree, op.key, op.value)
    IN  /\ pc = "set_overwrite"
        /\ Bounded(r.tree)
        /\ tree' = r.tree
        /\ pc' = "done"
        /\ ret' = r.ret
        /\ applied' = IF r.tree # tree THEN applied + 1 ELSE applied
        /\ lastRet' = IF r.tree # tree THEN Wrote(op.key, r.ret.ver) ELSE lastRet
        /\ UNCHANGED <<op, ops, stack, bnd, rks, opi, others, ncalls>>

\* Erase, up to the top of its loop.
CallErase(k, ver) ==
    /\ pc = "idle"
    /\ pc' = "erase_list"
    /\ op' = Call("Erase", k, "", ver, FALSE, NoTxn)
    /\ ops' = EraseOps(k, ver)
    /\ stack' = << Frame(k) >>
    /\ ret' = NoRet
    /\ applied' = 0
    /\ ncalls' = ncalls + 1
    /\ UNCHANGED <<tree, bnd, rks, opi, lastRet, others>>

\* Erase: one conn.Children of makeEraseQuery.
EraseList ==
    /\ pc = "erase_list"
    /\ \E order \in ListOrders(tree, stack) :
         LET r == makeEraseQuery(tree, stack, ops, order)
         IN  IF r.err # Nil
             THEN /\ pc' = "done"
                  /\ ret' = Ret(U64Zero, convertError(r.err))
                  /\ ops' = r.ops
                  /\ stack' = r.stack
             ELSE /\ pc' = IF r.stack = <<>> THEN "erase_submit" ELSE "erase_list"
                  /\ ret' = ret
                  /\ ops' = r.ops
                  /\ stack' = r.stack
    /\ UNCHANGED <<tree, op, bnd, rks, opi, applied, lastRet, others, ncalls>>

\* Erase, once conn.Multi has answered m and the switch on its error has
\* come to o.
EraseAnswered(m, o) ==
    /\ pc = "erase_submit"
    /\ tree' = m.tree
    /\ applied' = IF m.tree # tree THEN applied + 1 ELSE applied
    /\ lastRet' = Forget(lastRet, m.tree)
    /\ IF o.do = "continue"
       THEN /\ pc' = "erase_list"
            /\ ops' = EraseOps(op.key, op.ver)
            /\ stack' = << Frame(op.key) >>
            /\ ret' = ret
       ELSE /\ pc' = "done"
            /\ ret' = Ret(U64Zero, o.err)
            /\ UNCHANGED <<ops, stack>>
    /\ UNCHANGED <<op, bnd, rks, opi, others, ncalls>>

\* Erase: the switch on the error of conn.Multi's answer m.
EraseMulti(m) == \E o \in {EraseOutcome(m)} : EraseAnswered(m, o)

\* Erase: conn.Multi and the switch on its error.
EraseSubmit ==
    /\ pc = "erase_submit"
    /\ \E m \in {Submit(tree, EraseBatches(ops))} : EraseMulti(m)

\* The caller's variables at the top of Commit's loop, once the build has
\* run up to its first conn.Children or to conn.Multi.
CommitBuilt(b) ==
    /\ pc' = IF b.stack = <<>> THEN "commit_submit" ELSE "commit_list"
    /\ ops' = b.ops
    /\ bnd' = b.bnd
    /\ rks' = b.rks
    /\ opi' = b.opi
    /\ stack' = b.stack

CallCommit(txn) ==
    /\ pc = "idle"
    /\ op' = Call("Commit", <<>>, "", U64Zero, FALSE, txn)
    /\ CommitBuilt(CommitOps(txn, CommitChecks(txn)))
    /\ ret' = NoRet
    /\ applied' = 0
    /\ ncalls' = ncalls + 1
    /\ UNCHANGED <<tree, lastRet, others>>

\* Commit: one conn.Children of the makeEraseQuery of an Erase op.
CommitList ==
    /\ pc = "commit_list"
    /\ \E order \in ListOrders(tree, stack) :
         LET r == makeEraseQuery(tree, stack, ops, order)
             b == Built(ops, bnd, rks, opi, stack)
         IN  IF r.err # Nil \/ r.stack = <<>>
             THEN CommitBuilt(CommitErased(op.txn, b, r.ops, r.err))
             ELSE /\ pc' = "commit_list"
                  /\ ops' = r.ops
                  /\ stack' = r.stack
                  /\ UNCHANGED <<bnd, rks, opi>>
    /\ UNCHANGED <<tree, op, ret, applied, lastRet, others, ncalls>>

\* lastRet after a Commit that succeeded with the results res: each Create
\* or Set of txn.Ops takes the next result, each Erase forgets its subtree.
RECURSIVE Committed(_, _, _)
Committed(lr, os, res) ==
    IF os = <<>> THEN lr
    ELSE LET o == Head(os)
         IN  IF o.what = "Erase"
             THEN Committed([k \in Keys |-> IF IsPrefix(o.key, k) THEN U64Zero ELSE lr[k]],
                            Tail(os), res)
             ELSE IF res = <<>> THEN Committed(lr, Tail(os), res)
             ELSE Committed([lr EXCEPT ![o.key] = Head(res)[2]], Tail(os), Tail(res))

\* Commit, once conn.Multi has answered m and the loop over data has come
\* to o.
CommitAnswered(m, o) ==
    /\ pc = "commit_submit"
    /\ Bounded(m.tree)
    /\ tree' = m.tree
    /\ applied' = IF m.tree # tree THEN applied + 1 ELSE applied
    /\ CASE o.do = "continue" ->
              /\ CommitBuilt(CommitOps(op.txn, CommitChecks(op.txn)))
              /\ UNCHANGED <<ret, lastRet>>
         [] o.do = "panic" ->
              /\ pc' = "panic"
              /\ UNCHANGED <<ops, bnd, rks, opi, stack, ret, lastRet>>
         [] OTHER ->
              /\ pc' = "done"
              /\ UNCHANGED <<ops, bnd, rks, opi, stack>>
              /\ ret' = [Ret(U64Zero, o.err) EXCEPT !.idx = o.idx, !.res = o.res]
              /\ lastRet' = IF o.err = Nil THEN Committed(lastRet, op.txn.ops, o.res)
                            ELSE lastRet
    /\ UNCHANGED <<op, others, ncalls>>

\* Commit: the loop over the data of conn.Multi's answer m.
CommitMulti(m) ==
    \E o \in {Reconcile(bnd, rks, m.data, m.err, 1, <<>>)} : CommitAnswered(m, o)

\* Commit: conn.Multi and the loop over its answer.
CommitSubmit ==
    /\ pc = "commit_submit"
    /\ \E m \in {Submit(tree, CommitBatches(ops))} : CommitMulti(m)

\* The caller goes on to its next call.
Return ==
    /\ pc = "done"
    /\ ncalls < MaxCalls
    /\ pc' = "idle"
    /\ op' = NoCall
    /\ ret' = NoRet
    /\ applied' = 0
    /\ ops' = <<>>
    /\ stack' = <<>>
    /\ bnd' = <<>>
    /\ rks' = <<>>
    /\ opi' = 0
    /\ UNCHANGED <<tree, lastRet, others, ncalls>>

\* Another client's request changes the tree to t.
Other(t) ==
    /\ others < MaxOthers
    /\ t # tree
    /\ Bounded(t)
    /\ tree' = t
    /\ others' = others + 1
    /\ UNCHANGED <<pc, op, ops, stack, bnd, rks, opi, ret, applied, lastRet, ncalls>>

OtherCreate(k, e) == Other(ZkCreate(tree, assemblePath(k), OtherValue, e).tree)

OtherSet(k) == Other(ZkSet(tree, assemblePath(k), OtherValue, -1).tree)

OtherDelete(k) == Other(ZkDelete(tree, assemblePath(k), -1).tree)

\* Another client's Erase batch: k and all below it, at once.
OtherErase(k) ==
    /\ ChildNames(tree, assemblePath(k)) # {}
    /\ Other([p \in Paths |-> IF IsPrefix(assemblePath(k), p) THEN NoNode ELSE tree[p]])

Others ==
    \/ \E k \in Keys, e \in BOOLEAN : OtherCreate(k, e)
    \/ \E k \in Keys : OtherSet(k)
    \/ \E k \in Keys : OtherDelete(k)
    \/ \E k \in Keys : OtherErase(k)

\* The single-key calls, one call against the other clients.
NextSingle ==
    \/ \E k \in Keys, v \in Values, l \in BOOLEAN : CallCreate(k, v, l)
    \/ \E k \in Keys, v \in Values : CallSet(k, v)
    \/ SetOverwriteStep
    \/ \E k \in Keys, v \in Values, ver \in Versions : CallCas(k, v, ver)
    \/ \E k \in Keys : CallExists(k)
    \/ \E k \in Keys : CallGet(k)
    \/ \E k \in Keys : CallChildren(k)
    \/ Others

SpecSingle == Init /\ [][NextSingle]_vars

\* One Erase against the other clients.
NextErase ==
    \/ \E k \in Keys, ver \in Versions : CallErase(k, ver)
    \/ EraseList
    \/ EraseSubmit
    \/ Others

SpecErase == Init /\ [][NextErase]_vars

\* One Erase of x or x/y, with version 1 or 2, against the other clients.
NextEraseFew ==
    \/ \E k \in {X, XY}, ver \in {U64(1), U64(2)} : CallErase(k, ver)
    \/ EraseList
    \/ EraseSubmit
    \/ Others

\* The same with the caller scheduled fairly: a call in progress takes its
\* next round trip.
SpecEraseFair ==
    Init /\ [][NextEraseFew]_vars /\ WF_vars(EraseList) /\ WF_vars(EraseSubmit)

\* One Commit against the other clients.
NextCommit ==
    \/ \E txn \in Txns : CallCommit(txn)
    \/ CommitList
    \/ CommitSubmit
    \/ Others

SpecCommit == Init /\ [][NextCommit]_vars

\* The caller alone on an empty namespace, one call after the other.
NextSeq ==
    \/ \E k \in Keys, v \in Values, l \in BOOLEAN : CallCreate(k, v, l)
    \/ \E k \in Keys, v \in Values : CallSet(k, v)
    \/ SetOverwriteStep
    \/ \E k \in Keys, v \in Values, ver \in Versions : CallCas(k, v, ver)
    \/ \E k \in Keys : CallExists(k)
    \/ \E k \in Keys : CallGet(k)
    \/ \E k \in Keys, ver \in Versions : CallErase(k, ver)
    \/ EraseList
    \/ EraseSubmit
    \/ \E txn \in Txns : CallCommit(txn)
    \/ CommitList
    \/ CommitSubmit
    \/ Return

SpecSeq == InitEmpty /\ [][NextSeq]_vars

\* The caller alone on any tree: Erase, then what Exists and Children
\* report.
NextAlone ==
    \/ \E k \in Keys, ver \in Versions : CallErase(k, ver)
    \/ EraseList
    \/ EraseSubmit
    \/ \E k \in Keys : CallExists(k)
    \/ \E k \in Keys : CallChildren(k)
    \/ Return

SpecAlone == Init /\ [][NextAlone]_vars

-----------------------------------------------------------------------------
(* What the claims speak of *)

\* The step is the caller's, not another client's.
CallerStep == others' = others

\* The user version of key k in tree t: native version + 1, 0 when absent.
UserVer(t, k) ==
    IF t[assemblePath(k)].ex THEN U64Inc(U64(t[assemblePath(k)].ver)) ELSE U64Zero

\* Tree t without key k and everything below it.
Without(t, k) == [p \in Paths |-> IF IsPrefix(assemblePath(k), p) THEN NoNode ELSE t[p]]

\* What the Ops of a transaction mean, one after the other, on tree t.
RECURSIVE Meaning(_, _)
Meaning(t, os) ==
    IF os = <<>> THEN t
    ELSE LET o == Head(os)
             p == assemblePath(o.key)
         IN  CASE o.what = "Create" ->
                    Meaning([t EXCEPT ![p] = Node(o.value, 0, o.lease)], Tail(os))
               [] o.what = "Set" ->
                    Meaning([t EXCEPT ![p] = Node(o.value, t[p].ver + 1, t[p].eph)], Tail(os))
               [] OTHER -> Meaning(Without(t, o.key), Tail(os))

(* C1: every step of a Commit call either leaves the tree as it is or      *)
(* replaces it by the tree with all of txn.Ops applied, and the latter     *)
(* only as the step on which Commit returns its results; a step on which   *)
(* Commit returns an error, retries or panics changes nothing.             *)
C1_CommitAllOrNothing ==
    [][ (CallerStep /\ op.name = "Commit") =>
          \/ tree' = tree /\ ~(pc' = "done" /\ ret'.err = Nil)
          \/ /\ tree' = Meaning(tree, op.txn.ops)
             /\ pc' = "done" /\ ret'.err = Nil /\ applied' = 1 ]_vars

\* A Commit of two Ops returned its results after other clients moved.
C1_Witness ==
    /\ pc = "done" /\ op.name = "Commit" /\ ret.err = Nil
    /\ Len(op.txn.ops) >= 2 /\ applied = 1 /\ others >= 1

(* C2: every step of an Erase(K, V) call either leaves the tree as it is   *)
(* or removes K and everything below it, every node it listed included,    *)
(* at once.                                                                *)
C2_EraseAtomic ==
    [][ (CallerStep /\ op.name = "Erase") =>
          \/ tree' = tree
          \/ /\ tree[assemblePath(op.key)].ex
             /\ tree' = Without(tree, op.key)
             /\ \A i \in 1..Len(ops) : ops[i].type = "delete" => ~tree'[ops[i].path].ex ]_vars

\* An Erase removed a key with a listed descendant while other clients moved.
C2_Witness ==
    /\ pc = "done" /\ op.name = "Erase" /\ ret.err = Nil
    /\ applied = 1 /\ Len(ops) >= 3 /\ others >= 1

\* The first request of batch os that fails on tree t (counted from 1), or 0.
FirstFailure(t, os) ==
    LET run == ZkRun(t, os)
    IN  IF run # <<>> /\ run[Len(run)].err # Nil THEN Len(run) ELSE 0

\* Request f of batch os is a delete that fails on tree t for a structural
\* race alone: the node has, in t, a child the batch does not delete (it
\* gained a child after it was listed), or the node is a listed descendant
\* of an erased key (the batch deletes an ancestor after it) and is gone.
StructuralRace(t, os, f) ==
    /\ f > 0
    /\ os[f].type = "delete"
    /\ \/ /\ Has(t, os[f].path)
          /\ \E n \in ChildNames(t, os[f].path) :
                \A i \in 1..Len(os) :
                    ~(os[i].type = "delete" /\ os[i].path = os[f].path \o <<n>>)
          /\ \A i \in 1..(f - 1) : os[i].type \in {"check", "delete"}
       \/ /\ ~Has(t, os[f].path)
          /\ \E i \in (f + 1)..Len(os) :
                /\ os[i].type = "delete"
                /\ IsPrefix(os[i].path, os[f].path)
                /\ os[i].path # os[f].path

(* C3: when the batch Erase or Commit submits is rejected for a structural *)
(* race alone, the call does not return (nor crash) on that answer: it     *)
(* goes back to build the batch again.                                     *)
C3_StructuralRacesRetried ==
    [][ ( /\ CallerStep
          /\ pc \in {"erase_submit", "commit_submit"}
          /\ StructuralRace(tree, ops, FirstFailure(tree, ops)) )
        => pc' \in {"erase_list", "commit_list", "commit_submit"} ]_vars

\* The same for Erase alone.
C3_EraseRetries ==
    [][ ( /\ CallerStep
          /\ pc = "erase_submit"
          /\ StructuralRace(tree, ops, FirstFailure(tree, ops)) )
        => pc' = "erase_list" ]_vars

\* The user-level operation (counted from 0, Checks first) whose defining
\* item is request f of the batch, or -1: check i is request i, and the
\* defining item of an op is the last request of its expansion.
DefinedBy(f) ==
    LET own == { i \in 1..Len(bnd) : bnd[i] = f - 1 }
    IN  IF own = {} THEN -1 ELSE (CHOOSE i \in own : TRUE) - 1

(* C4: when the first failing request of the batch is the defining item of *)
(* a user-level operation, Commit returns TxnError with the index of that  *)
(* operation, Checks counted first.                                        *)
C4_TxnErrorIndex ==
    [][ ( /\ CallerStep
          /\ pc = "commit_submit"
          /\ FirstFailure(tree, ops) > 0
          /\ DefinedBy(FirstFailure(tree, ops)) >= 0 )
        => /\ pc' = "done"
           /\ ret'.err = TxnError
           /\ ret'.idx = DefinedBy(FirstFailure(tree, ops)) ]_vars

\* The same when no Set precedes the failing request in the batch.
C4_TxnErrorIndexNoSetBefore ==
    [][ ( /\ CallerStep
          /\ pc = "commit_submit"
          /\ FirstFailure(tree, ops) > 0
          /\ DefinedBy(FirstFailure(tree, ops)) >= 0
          /\ \A i \in 1..(FirstFailure(tree, ops) - 1) : ops[i].type # "set" )
        => /\ pc' = "done"
           /\ ret'.err = TxnError
           /\ ret'.idx = DefinedBy(FirstFailure(tree, ops)) ]_vars

\* The user versions of all keys in tree t.
UserVers(t) == [k \in Keys |-> UserVer(t, k)]

\* The user versions after op o, from the user versions uv.
After(uv, o) ==
    CASE o.what = "Create" -> [uv EXCEPT ![o.key] = U64(1)]
      [] o.what = "Set" -> [uv EXCEPT ![o.key] = U64Inc(uv[o.key])]
      [] OTHER -> [k \in Keys |-> IF IsPrefix(o.key, k) THEN U64Zero ELSE uv[k]]

\* The results the claim promises for the Ops os, from the user versions
\* uv: one per Create or Set, in order.
RECURSIVE Promised(_, _)
Promised(uv, os) ==
    IF os = <<>> THEN <<>>
    ELSE LET o == Head(os)
             rest == Promised(After(uv, o), Tail(os))
         IN  IF o.what = "Erase" THEN rest
             ELSE << <<o.what, After(uv, o)[o.key]>> >> \o rest

\* The last result reported for key k among the Ops os, U64Zero if none.
RECURSIVE LastResult(_, _, _)
LastResult(uv, os, k) ==
    IF os = <<>> THEN U64Zero
    ELSE LET o == Head(os)
             later == LastResult(After(uv, o), Tail(os), k)
         IN  IF later # U64Zero \/ o.key # k \/ o.what = "Erase" THEN later
             ELSE After(uv, o)[k]

\* Key k is erased by one of the Ops os after its last Create or Set.
RECURSIVE ErasedLast(_, _)
ErasedLast(os, k) ==
    IF os = <<>> THEN FALSE
    ELSE LET o == os[Len(os)]
         IN  IF o.what = "Erase" /\ IsPrefix(o.key, k) THEN TRUE
             ELSE IF o.key = k THEN FALSE
             ELSE ErasedLast(SubSeq(os, 1, Len(os) - 1), k)

\* The step on which Commit returns its results.
CommitSucceeds ==
    CallerStep /\ pc = "commit_submit" /\ pc' = "done" /\ ret'.err = Nil

(* C5 as stated: a successful Commit returns one result per Create or Set  *)
(* in order, (Create, 1) and (Set, previous user version + 1), and every   *)
(* key's version read after the Commit is the last result reported for it. *)
C5_ResultsAsStated ==
    [][ CommitSucceeds =>
          /\ ret'.res = Promised(UserVers(tree), op.txn.ops)
          /\ \A k \in Keys :
                LastResult(UserVers(tree), op.txn.ops, k) # U64Zero
                => Exists(tree', k).ver = LastResult(UserVers(tree), op.txn.ops, k) ]_vars

(* C5 amended: ... and the version read after the Commit of every key that *)
(* the transaction does not erase after its last Create or Set is the last *)
(* result reported for it.                                                 *)
C5_Results ==
    [][ CommitSucceeds =>
          /\ ret'.res = Promised(UserVers(tree), op.txn.ops)
          /\ \A k \in Keys :
                ( /\ LastResult(UserVers(tree), op.txn.ops, k) # U64Zero
                  /\ ~ErasedLast(op.txn.ops, k) )
                => Exists(tree', k).ver = LastResult(UserVers(tree), op.txn.ops, k) ]_vars

\* The Commit of Set(x), Create(x/u) of the spec returned [(Set, 2), (Create, 1)].
C5_Witness ==
    /\ pc = "done" /\ op.name = "Commit" /\ ret.err = Nil
    /\ ret.res = << <<"Set", U64(2)>>, <<"Create", U64(1)>> >>
    /\ Exists(tree, X).ver = U64(2)

(* C6: when Erase(K, V), V >= 1, submits its batch while K exists with a   *)
(* user version other than V, it returns nil and the tree stays as it is.  *)
C6_EraseVersionMismatch ==
    [][ ( /\ CallerStep
          /\ pc = "erase_submit"
          /\ op.ver # U64Zero
          /\ Has(tree, assemblePath(op.key))
          /\ UserVer(tree, op.key) # op.ver )
        => tree' = tree /\ pc' = "done" /\ ret'.err = Nil ]_vars

\* The same for the versions below 2^31.
C6_EraseVersionMismatchSmall ==
    [][ ( /\ CallerStep
          /\ pc = "erase_submit"
          /\ op.ver # U64Zero
          /\ op.ver[1] = 0 /\ op.ver[2] = 0 /\ op.ver[3] < Half
          /\ Has(tree, assemblePath(op.key))
          /\ UserVer(tree, op.key) # op.ver )
        => tree' = tree /\ pc' = "done" /\ ret'.err = Nil ]_vars

(* C7: a Set that returned without error has stored its value: one of its  *)
(* requests changed the tree.                                              *)
C7_SetStores ==
    (pc = "done" /\ op.name = "Set" /\ ret.err = Nil) => applied >= 1

\* The same for the returns other than the sentinel.
C7_SetStoresUnlessSentinel ==
    (pc = "done" /\ op.name = "Set" /\ ret.err = Nil /\ ret.ver # Sentinel) => applied >= 1

(* C8: a Cas whose expected version differs from the key's user version    *)
(* leaves the tree as it is; it returns (0, nil) when the key exists and    *)
(* NoEntry when the key is absent and the expected version is not 0.        *)
C8_CasMismatch ==
    [][ ( /\ CallerStep
          /\ pc = "idle" /\ pc' = "done" /\ op'.name = "Cas"
          /\ UserVer(tree, op'.key) # op'.ver )
        => /\ tree' = tree
           /\ Has(tree, assemblePath(op'.key)) => ret' = Ret(U64Zero, Nil)
           /\ ~Has(tree, assemblePath(op'.key)) => ret'.err = OpErrNoEntry ]_vars

\* The same for the versions below 2^31.
C8_CasMismatchSmall ==
    [][ ( /\ CallerStep
          /\ pc = "idle" /\ pc' = "done" /\ op'.name = "Cas"
          /\ op'.ver[1] = 0 /\ op'.ver[2] = 0 /\ op'.ver[3] < Half
          /\ UserVer(tree, op'.key) # op'.ver )
        => /\ tree' = tree
           /\ Has(tree, assemblePath(op'.key)) => ret' = Ret(U64Zero, Nil)
           /\ ~Has(tree, assemblePath(op'.key)) => ret'.err = OpErrNoEntry ]_vars

\* The caller's step is a write of key k that found k present and left it
\* present: an overwrite by Set or Cas.
Overwrites(k) ==
    /\ pc' = "done" /\ op'.name \in {"Set", "Cas"} /\ op'.key = k
    /\ tree[assemblePath(k)].ex
    /\ tree' # tree

(* C9: in every state every key's user version, native version + 1 or 0    *)
(* when absent, is the version the last write of that key returned; Exists *)
(* and Get report it (Get fails with NoEntry on an absent key); an         *)
(* overwrite by Set or Cas returns the previous user version + 1, and the  *)
(* Sets of a Commit return the previous user version + 1 each.             *)
C9_UserVersions ==
    [][ /\ \A k \in Keys : lastRet'[k] = UserVer(tree', k)
        /\ (pc' = "done" /\ op'.name = "Exists")
              => ret'.ver = lastRet'[op'.key] /\ ret'.err = Nil
        /\ (pc' = "done" /\ op'.name = "Get")
              => IF lastRet'[op'.key] = U64Zero THEN ret'.err = OpErrNoEntry
                 ELSE /\ ret'.err = Nil
                      /\ ret'.ver = lastRet'[op'.key]
                      /\ ret'.data = tree'[assemblePath(op'.key)].data
        /\ \A k \in Keys : Overwrites(k) => ret'.ver = U64Inc(lastRet[k])
        /\ CommitSucceeds => ret'.res = Promised(lastRet, op.txn.ops) ]_vars

\* Set, Set, Get on one key: the second Set returned 2 and Get returns (2, v2).
C9_Witness ==
    /\ pc = "done" /\ op.name = "Get" /\ ncalls = 3
    /\ ret.ver = U64(2) /\ ret.data = "v2" /\ lastRet[op.key] = U64(2)

\* The first Check of cs (counted from 0) that does not hold on tree t in
\* the sense of the claim: version 0 holds of an absent key, V >= 1 of a key
\* with user version V.  -1 when all hold.
FirstUnmet(t, cs) ==
    LET unmet == { i \in 1..Len(cs) : UserVer(t, cs[i].key) # cs[i].ver }
    IN  IF unmet = {} THEN -1 ELSE (CHOOSE i \in unmet : \A j \in unmet : i <= j) - 1

(* C10: a Commit with a Check (K, 0) submitted while K exists applies      *)
(* nothing and returns TxnError with the index of the first Check that     *)
(* does not hold.                                                          *)
C10_CheckZeroMeansAbsent ==
    [][ ( /\ CallerStep
          /\ pc = "commit_submit"
          /\ \E i \in 1..Len(op.txn.checks) :
                /\ op.txn.checks[i].ver = U64Zero
                /\ Has(tree, assemblePath(op.txn.checks[i].key)) )
        => /\ tree' = tree
           /\ pc' = "done"
           /\ ret'.err = TxnError
           /\ ret'.idx = FirstUnmet(tree, op.txn.checks) ]_vars

\* What the code does instead: a Check (K, 0) fails when K is absent.
C10_CheckZeroFailsOnAbsent ==
    [][ ( /\ CallerStep
          /\ pc = "commit_submit"
          /\ \E i \in 1..Len(op.txn.checks) :
                /\ op.txn.checks[i].ver = U64Zero
                /\ ~Has(tree, assemblePath(op.txn.checks[i].key)) )
        => /\ tree' = tree
           /\ pc' = "done"
           /\ ret'.err = TxnError
           /\ ret'.idx < Len(op.txn.checks) ]_vars

\* Version v is 2^31 or more: it does not fit the service's 32-bit native
\* version.
Large(v) == v[1] # 0 \/ v[2] # 0 \/ v[3] >= Half

(* C11: an expected version of 2^31 or more, the sentinel 1<<62 included,  *)
(* never matches an existing key: Cas returns (0, nil) and writes nothing, *)
(* Erase deletes nothing, and a Commit with such a Check fails with        *)
(* TxnError at a Check and applies nothing.                                *)
C11_LargeVersionsMismatch ==
    [][ /\ ( /\ pc = "idle" /\ pc' = "done" /\ op'.name = "Cas"
             /\ Large(op'.ver)
             /\ Has(tree, assemblePath(op'.key)) )
           => tree' = tree /\ ret' = Ret(U64Zero, Nil)
        /\ ( /\ pc = "erase_submit"
             /\ Large(op.ver)
             /\ Has(tree, assemblePath(op.key)) )
           => tree' = tree
        /\ ( /\ pc = "commit_submit"
             /\ \E i \in 1..Len(op.txn.checks) :
                   /\ Large(op.txn.checks[i].ver)
                   /\ Has(tree, assemblePath(op.txn.checks[i].key)) )
           => /\ tree' = tree
              /\ pc' = "done"
              /\ ret'.err = TxnError
              /\ ret'.idx \in 0..(Len(op.txn.checks) - 1) ]_vars

\* The same of Erase alone, for the versions whose low 32 bits are
\* neither 0 nor the key's user version: those the conversion leaves unequal.
C11_EraseLargeUnequalLowBits ==
    [][ ( /\ pc = "erase_submit"
          /\ Large(op.ver)
          /\ Has(tree, assemblePath(op.key))
          /\ Int32(op.ver) # 0
          /\ Int32(op.ver) # tree[assemblePath(op.key)].ver + 1 )
        => tree' = tree ]_vars

(* C12: with no other client at work, Erase(K, V) with V the user version  *)
(* of the existing key K returns nil after one batch that removes K and    *)
(* everything below it and nothing else; Exists then reports 0 for K and   *)
(* every key below it, and Children(K) fails with NoEntry.                 *)
C12_EraseRemovesSubtree ==
    [][ ( /\ pc = "erase_submit"
          /\ Has(tree, assemblePath(op.key))
          /\ op.ver = UserVer(tree, op.key) )
        => /\ pc' = "done" /\ ret'.err = Nil /\ applied' = 1
           /\ tree' = Without(tree, op.key)
           /\ \A k \in Keys :
                 IF IsPrefix(op.key, k)
                 THEN Exists(tree', k) = Ret(U64Zero, Nil)
                 ELSE tree'[assemblePath(k)] = tree[assemblePath(k)]
           /\ Children(tree', op.key).err = OpErrNoEntry ]_vars

\* Erase(x, 2) has removed x with x/y, x/y/z and x/u: its batch held the
\* check and four deletes, and Children(x) now fails with NoEntry.
C12_Witness ==
    /\ pc = "done" /\ op.name = "Erase" /\ op.key = X /\ op.ver = U64(2)
    /\ ret.err = Nil /\ applied = 1
    /\ Len(ops) = 5
    /\ tree = EmptyTree
    /\ Children(tree, X).err = OpErrNoEntry

\* Erase is about to list its target: the outermost makeEraseQuery has not
\* called conn.Children yet.
ListsTarget ==
    pc = "erase_list" /\ Len(stack) = 1 /\ ~stack[1].listed /\ stack[1].segs = op.key

\* Erase is about to list, or to submit the delete of, a node below its
\* target that is gone.
DescendantVanished ==
    \/ /\ pc = "erase_list" /\ Len(stack) > 1
       /\ ~Has(tree, assemblePath(stack[Len(stack)].segs))
    \/ /\ pc = "erase_submit"
       /\ \E i \in 2..Len(ops) :
             /\ ops[i].path # assemblePath(op.key)
             /\ ~Has(tree, ops[i].path)

(* C13: whatever the version asked for, when the target is absent as Erase *)
(* lists it, or as the batch is applied, Erase returns NoEntry at once and *)
(* changes nothing; while the target is there, a node below it that is     *)
(* gone when listed or when the batch is applied gives no error.           *)
C13_EraseMissingTarget ==
    [][ (CallerStep /\ op.name = "Erase") =>
          /\ ( /\ (ListsTarget \/ pc = "erase_submit")
               /\ ~Has(tree, assemblePath(op.key)) )
             => /\ pc' = "done"
                /\ ret'.err = OpErrNoEntry
                /\ tree' = tree
          /\ ( /\ DescendantVanished
               /\ Has(tree, assemblePath(op.key)) )
             => ret'.err = Nil ]_vars

\* Erase returned NoEntry on its batch: the target was there when listed
\* and another client removed it before the submission.
C13_Witness ==
    /\ pc = "done" /\ op.name = "Erase" /\ ret.err = OpErrNoEntry
    /\ Len(ops) >= 2 /\ applied = 0 /\ others >= 1
    /\ ~Has(tree, assemblePath(op.key))

\* The step is the caller's Create, from its call to its return.
CreateStep == CallerStep /\ pc = "idle" /\ pc' = "done" /\ op'.name = "Create"

\* Tree t with key k created: value v, native version 0, lease l.
WithCreated(t, k, v, l) == [t EXCEPT ![assemblePath(k)] = Node(v, 0, l)]

\* The node above key k can take a child in tree t: it is the namespace
\* root or an existing key that is not lease-bound.
ParentTakes(t, k) ==
    /\ Has(t, Parent(assemblePath(k)))
    /\ ~t[Parent(assemblePath(k))].eph

(* C14 as stated: Create on an absent key returns 1 and stores the value;  *)
(* Create on an existing key fails with EntryExists and changes nothing.   *)
C14_CreateAsStated ==
    [][ CreateStep =>
          IF ~Has(tree, assemblePath(op'.key))
          THEN /\ ret' = Ret(U64(1), Nil)
               /\ tree' = WithCreated(tree, op'.key, op'.value, op'.lease)
          ELSE /\ ret'.err = OpErrEntryExists
               /\ tree' = tree ]_vars

(* C14 amended: Create on an absent key whose parent exists and is not     *)
(* lease-bound returns 1 and stores the value; Create on an existing key   *)
(* fails with EntryExists and changes nothing; every other Create fails    *)
(* and changes nothing.  So a Create succeeds only on an absent key, which *)
(* is there afterwards: of two Creates of a key with no erase in between,  *)
(* at most one succeeds.                                                   *)
C14_Create ==
    [][ CreateStep =>
          /\ IF Has(tree, assemblePath(op'.key))
             THEN /\ ret'.err = OpErrEntryExists
                  /\ tree' = tree
             ELSE IF ParentTakes(tree, op'.key)
             THEN /\ ret' = Ret(U64(1), Nil)
                  /\ tree' = WithCreated(tree, op'.key, op'.value, op'.lease)
             ELSE /\ ret'.err \in {OpErrNoEntry, OpErrEphem}
                  /\ tree' = tree
          /\ ret'.err = Nil =>
                /\ ~Has(tree, assemblePath(op'.key))
                /\ Has(tree', assemblePath(op'.key)) ]_vars

\* The caller's Create failed with EntryExists on a key that another
\* client had created under a lease, and left that node as it was.
C14_Witness ==
    /\ pc = "done" /\ op.name = "Create" /\ ret.err = OpErrEntryExists
    /\ applied = 0 /\ others >= 1
    /\ tree[assemblePath(op.key)] = Node(OtherValue, 0, TRUE)

(* C15: with no other client at work, a Commit submits one batch only: it  *)
(* never goes back to build its batch again after a submission.            *)
C15_CommitNeverRebuilds ==
    [][ pc = "commit_submit" => pc' \in {"done", "panic"} ]_vars

\* The same with the return required: the first submission ends the call
\* with results or an error.
C15_CommitOneSubmission ==
    [][ pc = "commit_submit" => pc' = "done" ]_vars

\* The same for the transactions with at most one Erase and no Set: these
\* neither meet their own deletes twice nor read a Stat that is not there.
C15_CommitOneSubmissionPlain ==
    [][ ( /\ pc = "commit_submit"
          /\ Cardinality({ i \in 1..Len(op.txn.ops) : op.txn.ops[i].what = "Erase" }) <= 1
          /\ \A i \in 1..Len(op.txn.ops) : op.txn.ops[i].what # "Set" )
        => pc' = "done" ]_vars

\* The error conn.Multi gives for batch os on tree t: that of the first
\* request that fails, or nil.
BatchError(t, os) ==
    IF FirstFailure(t, os) = 0 THEN Nil
    ELSE ZkRun(t, os)[FirstFailure(t, os)].err

\* The batch os is rejected on tree t for a structural race: with
\* NotEmpty, or with NoNode past the version check of the target.
RetriedFailure(t, os) ==
    \/ BatchError(t, os) = ErrNotEmpty
    \/ BatchError(t, os) = ErrNoNode /\ FirstFailure(t, os) > 1

\* An Erase call has not returned yet.
EraseInProgress == pc \in {"erase_list", "erase_submit"}

(* C16: Erase builds and submits its batch again exactly when the batch    *)
(* failed with NotEmpty, or with NoNode past the target's version check;   *)
(* on every other answer to the batch, and when the listing of the target  *)
(* fails, it returns at once.  The other clients make finitely many        *)
(* requests, so from some point on none changes the subtree: an Erase in   *)
(* progress, scheduled fairly, eventually returns.                         *)
C16_EraseRetriesAndReturns ==
    /\ [][ CallerStep =>
             /\ pc = "erase_submit" =>
                   IF RetriedFailure(tree, ops)
                   THEN /\ pc' = "erase_list" /\ tree' = tree
                        /\ ops' = EraseOps(op.key, op.ver)
                        /\ stack' = << Frame(op.key) >>
                   ELSE pc' = "done"
             /\ (ListsTarget /\ ~Has(tree, assemblePath(op.key))) => pc' = "done"
             /\ (pc = "erase_list" /\ pc' = "erase_list" /\ Len(stack') = 1 /\ ~stack'[1].listed)
                   => FALSE ]_vars
    /\ EraseInProgress ~> (pc = "done")

\* Erase's batch is about to be rejected with NotEmpty: after the listing
\* another client gave a listed node a child the batch does not delete.
C16_Witness ==
    /\ pc = "erase_submit" /\ others >= 1
    /\ Len(ops) >= 2
    /\ BatchError(tree, ops) = ErrNotEmpty

\* The paths of target k and of everything below it that are in tree t.
Subtree(t, k) == { p \in Paths : IsPrefix(assemblePath(k), p) /\ t[p].ex }

(* C17: the batch Erase submits, with no other client at work between the  *)
(* listing and the submission, is the version check of the target, then    *)
(* one delete with version -1 for each node of the target's subtree and no *)
(* other, no node before one below it, the target last; on the tree as it  *)
(* is no delete of it fails with NotEmpty.                                 *)
C17_EraseBatchShape ==
    (pc = "erase_submit") =>
        /\ Len(ops) >= 2
        /\ ops[1] = CheckVersionRequest(assemblePath(op.key), EraseVersion(op.ver))
        /\ \A i \in 2..Len(ops) : ops[i] = DeleteRequest(ops[i].path, -1)
        /\ { ops[i].path : i \in 2..Len(ops) } = Subtree(tree, op.key)
        /\ \A i, j \in 2..Len(ops) : ops[i].path = ops[j].path => i = j
        /\ \A i, j \in 2..Len(ops) : (i < j) => ~IsPrefix(ops[i].path, ops[j].path)
        /\ ops[Len(ops)].path = assemblePath(op.key)
        /\ BatchError(tree, ops) # ErrNotEmpty

\* Erase(x, V) is about to submit the check and the deletes of x/y/z, x/y,
\* x/u and x, in one of the orders the listing allows.
C17_Witness ==
    /\ pc = "erase_submit" /\ op.key = X
    /\ Len(ops) = 5
    /\ ops[2].path = assemblePath(XYZ)
    /\ ops[3].path = assemblePath(XY)
    /\ ops[4].path = assemblePath(XU)
    /\ ops[5].path = assemblePath(X)

\* The user-level operations of transaction txn in the order the claim
\* gives them: Checks, then Ops.
UserOps(txn) ==
    [u \in 1..(Len(txn.checks) + Len(txn.ops)) |->
        IF u <= Len(txn.checks)
        THEN [what |-> "Check", key |-> txn.checks[u].key, ver |-> txn.checks[u].ver,
              value |-> "", lease |-> FALSE]
        ELSE [what |-> txn.ops[u - Len(txn.checks)].what,
              key |-> txn.ops[u - Len(txn.checks)].key, ver |-> U64Zero,
              value |-> txn.ops[u - Len(txn.checks)].value,
              lease |-> txn.ops[u - Len(txn.checks)].lease]]

\* The items of the batch (counted from 1) that boundaries bs give to user
\* operation u (counted from 1): those after the boundary of u - 1, up to
\* the boundary of u.
ItemsOf(bs, u) == ((IF u = 1 THEN 0 ELSE bs[u - 1] + 1) + 1)..(bs[u] + 1)

\* The items os, with kinds ks, are the expansion of user operation o.
ExpansionOf(o, os, ks, items) ==
    CASE o.what = "Check" ->
            /\ Cardinality(items) = 1
            /\ \A i \in items :
                  /\ os[i] = CheckVersionRequest(assemblePath(o.key), CheckVersion(o.ver))
                  /\ ks[i] = rkAux
      [] o.what = "Create" ->
            /\ Cardinality(items) = 1
            /\ \A i \in items :
                  /\ os[i] = CreateRequest(assemblePath(o.key), o.value, o.lease)
                  /\ ks[i] = rkCreate
      [] o.what = "Set" ->
            /\ Cardinality(items) = 1
            /\ \A i \in items :
                  /\ os[i] = SetDataRequest(assemblePath(o.key), o.value, -1)
                  /\ ks[i] = rkSet
      [] OTHER ->
            /\ items # {}
            /\ \A i \in items :
                  /\ os[i] = DeleteRequest(os[i].path, -1)
                  /\ IsPrefix(assemblePath(o.key), os[i].path)
                  /\ ks[i] = rkAux
            /\ \A i \in items : (i + 1 \notin items) => os[i].path = assemblePath(o.key)

(* C18: in every batch Commit has built, there is one result kind per item *)
(* and one boundary per user-level operation, Checks then Ops; the         *)
(* boundaries increase strictly and the last is the last item; the items   *)
(* between two boundaries are the expansion of that operation, in the      *)
(* order of the transaction; and toUserOpIndex gives every item the one    *)
(* operation whose expansion holds it, never -1.                           *)
C18_CommitBookkeeping ==
    (pc = "commit_submit") =>
        /\ Len(rks) = Len(ops)
        /\ Len(bnd) = Len(op.txn.checks) + Len(op.txn.ops)
        /\ \A u \in 1..Len(bnd) : bnd[u] \in 0..(Len(ops) - 1)
        /\ \A u \in 2..Len(bnd) : bnd[u - 1] < bnd[u]
        /\ Len(bnd) > 0 => bnd[Len(bnd)] = Len(ops) - 1
        /\ Len(bnd) = 0 => ops = <<>>
        /\ \A u \in 1..Len(bnd) :
              ExpansionOf(UserOps(op.txn)[u], ops, rks, ItemsOf(bnd, u))
        /\ \A i \in 1..Len(ops) :
              /\ toUserOpIndex(bnd, i - 1) \in 0..(Len(bnd) - 1)
              /\ i \in ItemsOf(bnd, toUserOpIndex(bnd, i - 1) + 1)

\* Commit has built the batch of two Checks, Erase(x/y) and Erase(x) on a
\* tree where these expand to six items or more, other clients at work.
C18_Witness ==
    /\ pc = "commit_submit" /\ others >= 1
    /\ Len(op.txn.checks) = 2 /\ Len(op.txn.ops) = 2
    /\ Len(ops) >= 6

\* The first failing request of the batch is a Set whose key is absent.
SetOnAbsentFails ==
    /\ pc = "commit_submit"
    /\ FirstFailure(tree, ops) > 0
    /\ ops[FirstFailure(tree, ops)].type = "set"
    /\ ~Has(tree, ops[FirstFailure(tree, ops)].path)

(* C19: when the first failing request of a Commit's batch is a Set whose  *)
(* key is absent, Commit returns TxnError with that op's index and writes  *)
(* nothing; the call Set on an absent key whose parent can take a child    *)
(* creates the key and returns 1.                                          *)
C19_CommitSetIsOverwrite ==
    [][ /\ SetOnAbsentFails =>
              /\ pc' = "done"
              /\ ret'.err = TxnError
              /\ ret'.idx = DefinedBy(FirstFailure(tree, ops))
              /\ tree' = tree
        /\ ( /\ pc = "idle" /\ pc' # "idle" /\ op'.name = "Set"
             /\ ~Has(tree, assemblePath(op'.key))
             /\ ParentTakes(tree, op'.key) )
           => /\ pc' = "done"
              /\ ret' = Ret(U64(1), Nil)
              /\ tree' = WithCreated(tree, op'.key, op'.value, FALSE) ]_vars

\* The same when no other Set precedes the failing one in the batch.
C19_CommitSetIsOverwriteFirstSet ==
    [][ /\ ( /\ SetOnAbsentFails
             /\ \A i \in 1..(FirstFailure(tree, ops) - 1) : ops[i].type # "set" )
           => /\ pc' = "done"
              /\ ret'.err = TxnError
              /\ ret'.idx = DefinedBy(FirstFailure(tree, ops))
              /\ tree' = tree
        /\ ( /\ pc = "idle" /\ pc' # "idle" /\ op'.name = "Set"
             /\ ~Has(tree, assemblePath(op'.key))
             /\ ParentTakes(tree, op'.key) )
           => /\ pc' = "done"
              /\ ret' = Ret(U64(1), Nil)
              /\ tree' = WithCreated(tree, op'.key, op'.value, FALSE) ]_vars

\* Commit is about to list, for the first time, the target of the Erase op
\* it is expanding, and the target is absent.
ListsAbsentTarget ==
    /\ pc = "commit_list"
    /\ Len(stack) = 1
    /\ ~stack[1].listed
    /\ ~Has(tree, assemblePath(stack[1].segs))

\* The first failing request of the batch is the only item of an Erase op,
\* and its target is absent.
LoneDeleteFails ==
    /\ pc = "commit_submit"
    /\ FirstFailure(tree, ops) > 0
    /\ ops[FirstFailure(tree, ops)].type = "delete"
    /\ ~Has(tree, ops[FirstFailure(tree, ops)].path)
    /\ DefinedBy(FirstFailure(tree, ops)) >= 0
    /\ ItemsOf(bnd, DefinedBy(FirstFailure(tree, ops)) + 1) = {FirstFailure(tree, ops)}

\* Commit gives the Erase op whose absent target it lists one item, a
\* delete of the target with any version, which is the op's boundary.
ExpandsToLoneDelete ==
    /\ opi' > opi
    /\ Len(ops') > Len(ops)
    /\ SubSeq(ops', 1, Len(ops)) = ops
    /\ ops'[Len(ops) + 1] = DeleteRequest(assemblePath(stack[1].segs), -1)
    /\ rks'[Len(ops) + 1] = rkAux
    /\ bnd'[Len(bnd) + 1] = Len(ops)

\* Commit returns TxnError with the index of the op of the first failing
\* request, and the tree is as it was.
FailsAtItsOp ==
    /\ pc' = "done"
    /\ ret'.err = TxnError
    /\ ret'.idx = DefinedBy(FirstFailure(tree, ops))
    /\ tree' = tree

(* C20: an Erase op of a Commit whose target is absent when Commit lists   *)
(* it expands to one delete of the target, the op's defining item; when    *)
(* that delete is the first failing request of the batch, its target       *)
(* absent, Commit returns TxnError with that op's index and applies        *)
(* nothing: it neither returns NoEntry nor builds the batch again.         *)
C20_CommitEraseAbsentTarget ==
    [][ /\ (CallerStep /\ ListsAbsentTarget) => ExpandsToLoneDelete
        /\ (CallerStep /\ LoneDeleteFails) => FailsAtItsOp ]_vars

\* The same when no Set precedes the failing delete in the batch.
C20_CommitEraseAbsentTargetNoSet ==
    [][ /\ (CallerStep /\ ListsAbsentTarget) => ExpandsToLoneDelete
        /\ ( /\ CallerStep /\ LoneDeleteFails
             /\ \A i \in 1..(FirstFailure(tree, ops) - 1) : ops[i].type # "set" )
           => FailsAtItsOp ]_vars

=============================================================================
